---- MODULE Spec2Model ----
(***************************************************************************)
(* Model of the vm.getCode() reproduction repository: the reproduce script *)
(* (rm -rf artifacts cache; npx hardhat test solidity ...), the two        *)
(* artifact directories on disk, the in-memory artifact index (EDR's       *)
(* available_artifacts) that vm.getCode searches, the Solidity tests of    *)
(* the three versions of test/solidity/Test.t.sol, and the SimpleContract  *)
(* and Greeter fixtures.                                                   *)
(***************************************************************************)
EXTENDS Naturals, Sequences, FiniteSets

VARIABLES
    config,        \* which configuration file is in force
    testFile,      \* which version of test/solidity/Test.t.sol is checked out
    artifactsDir,  \* artifact records under artifacts/ ("contracts" scope)
    cacheDir,      \* artifact records under cache/test-artifacts/ ("tests" scope)
    edr,           \* in-memory artifact index of the running test process
    pc,            \* "shell", "script_start", "script_cleaned", "testing", "done"
    viaScript,     \* the current command was started by the reproduce script
    rmFailed,      \* the script's rm step failed
    compiles,      \* compilation passes run by the current command
    pending,       \* tests of the suite not run yet
    results,       \* test name -> "none" | "pass" | "fail"
    lookups,       \* identifier -> outcome of its last vm.getCode in this run
    deployed,      \* the SimpleContract instance created by a test
    probed,        \* test name -> the lookups it made, in order, with their outcomes
    exitStatus,    \* exit status of the finished command
    greeter,       \* Greeter instance -> its storage
    lastCall       \* the last call made to a Greeter instance and how it ended

vars == <<config, testFile, artifactsDir, cacheDir, edr, pc, viaScript, rmFailed,
          compiles, pending, results, lookups, deployed, probed, exitStatus,
          greeter, lastCall>>

-----------------------------------------------------------------------------
(* Configurations and test-file versions *)

Configs == {"hardhat.config.ts", "part_001"}

TestFiles == {"part_004", "part_003", "Test.t.sol"}

-----------------------------------------------------------------------------
(* Artifacts: a record of source name (path components) and contract name *)

SimpleContractArt ==
    [sourceName |-> <<"contracts", "SimpleContract.sol">>, name |-> "SimpleContract"]

GreeterArt ==
    [sourceName |-> <<"contracts", "Greeter.sol">>, name |-> "Greeter"]

TestContractArt ==
    [sourceName |-> <<"test", "solidity", "Test.t.sol">>, name |-> "TestContract"]

OzProxy(dir, n) ==
    [sourceName |-> <<"@openzeppelin", "contracts", "proxy", dir, n \o ".sol">>,
     name |-> n]

TransparentProxyArt == OzProxy("transparent", "TransparentUpgradeableProxy")

npmFilesToBuild(c) ==
    IF c = "part_001"
    THEN {TransparentProxyArt,
          OzProxy("transparent", "ProxyAdmin"),
          OzProxy("ERC1967", "ERC1967Proxy"),
          OzProxy("beacon", "UpgradeableBeacon"),
          OzProxy("beacon", "BeaconProxy")}
    ELSE {}

MainArtifacts == {SimpleContractArt, GreeterArt}

Bytecode(a) == <<a.name>>

-----------------------------------------------------------------------------
(* Contract identifiers: "Name.sol" or "path/Name.sol:Symbol" *)

NoSymbol == ""

Id(path, symbol) == [path |-> path, symbol |-> symbol]

IdSimpleContract == Id(<<"SimpleContract.sol">>, NoSymbol)

IdGreeter == Id(<<"Greeter.sol">>, NoSymbol)

IdTransparentProxy ==
    Id(<<"TransparentUpgradeableProxy.sol">>, "TransparentUpgradeableProxy")

\* the six identifiers probed by test_DIAGNOSTIC_showArtifactAvailability, in order
contracts ==
    <<IdSimpleContract,
      IdGreeter,
      IdTransparentProxy,
      Id(<<"@openzeppelin", "contracts", "proxy", "transparent",
           "TransparentUpgradeableProxy.sol">>, "TransparentUpgradeableProxy"),
      Id(<<"contracts", "proxy", "transparent",
           "TransparentUpgradeableProxy.sol">>, "TransparentUpgradeableProxy"),
      Id(<<"node_modules", "@openzeppelin", "contracts", "proxy", "transparent",
           "TransparentUpgradeableProxy.sol">>, "TransparentUpgradeableProxy")>>

Ids == {contracts[i] : i \in 1..Len(contracts)}

IsSuffix(s, t) ==
    /\ Len(s) <= Len(t)
    /\ \A i \in 1..Len(s) : s[i] = t[Len(t) - Len(s) + i]

\* an identifier names an artifact by the tail of its source name and,
\* when given, its contract symbol
Matches(id, a) ==
    /\ IsSuffix(id.path, a.sourceName)
    /\ id.symbol \in {NoSymbol, a.name}

NotFoundError == "no matching artifact found"

\* vm.getCode: searches the in-memory index, never the file system
getCode(index, id) ==
    LET m == {a \in index : Matches(id, a)}
    IN  IF m = {}
        THEN [ok |-> FALSE, error |-> NotFoundError, code |-> <<>>]
        ELSE [ok |-> TRUE, error |-> "", code |-> Bytecode(CHOOSE a \in m : TRUE)]

Outcome(r) == IF r.ok THEN "found" ELSE "notfound"

-----------------------------------------------------------------------------
(* SimpleContract *)

initialValue == 100

\* constructor(uint256 _value) { value = _value; }
SimpleContract(_value) == [address |-> 1, value |-> _value]

\* function setValue(uint256 _value) public { value = _value; }
setValue(c, _value) == [c EXCEPT !.value = _value]

NotDeployed == [address |-> 0, value |-> 0]

\* abi.encodePacked(code, abi.encode(arg))
deploymentBytecode(code, arg) == code \o <<arg>>

\* create(0, add(deploymentBytecode, 0x20), mload(deploymentBytecode)):
\* runs the constructor of the contract whose creation code it is given
create(initcode) ==
    IF Len(initcode) = 2 /\ initcode[1] = SimpleContractArt.name
    THEN SimpleContract(initcode[2])
    ELSE NotDeployed

-----------------------------------------------------------------------------
(* The build tool's passes *)

\* hardhat compile: the full-project pass writes the contracts scope and the
\* configured npm files under artifacts/
HardhatCompileOutput(c) == MainArtifacts \cup npmFilesToBuild(c)

MutTestCompileImports == {TestContractArt, SimpleContractArt, GreeterArt}

\* hardhat test solidity compiles the test files only: what it writes under
\* cache/test-artifacts/
TestCompileCache == {TestContractArt}

MutTestCompileMain == MainArtifacts

\* ... and what it writes under artifacts/: nothing
TestCompileArtifacts == {}

MutLoadAllScopes(artifacts, cache) == artifacts \cup cache

\* only the "tests" scope (cache/test-artifacts/) is loaded into EDR
LoadArtifacts(artifacts, cache) == cache

MutRmCacheOnly == {"cache"}

\* rm -rf artifacts cache
RmTargets == {"artifacts", "cache"}

RmRf(targets, dir, content) == IF dir \in targets THEN {} ELSE content

\* the test command's exit status: non-zero when any test failed
TestExitStatus(res) ==
    IF \E t \in DOMAIN res : res[t] = "fail" THEN 1 ELSE 0

\* without the expectation a reverting call fails the test
MutNoExpectRevert(reverted) == ~reverted

\* vm.expectRevert(): the test passes exactly when the next call reverts
expectRevert(reverted) == reverted

-----------------------------------------------------------------------------
(* The test suites *)

Tests(f) ==
    CASE f = "part_004" -> {"testGetCode"}
      [] f = "part_003" -> {"testGetCode", "testGetCodeAndCreate",
                            "testGetCodeFromPackage"}
      [] f = "Test.t.sol" ->
            {"test_LOCAL_vmGetCode_SimpleContract_SHOULD_PASS",
             "test_LOCAL_vmGetCode_Greeter_SHOULD_PASS",
             "test_LOCAL_deployWithVmGetCode_SHOULD_PASS",
             "test_PACKAGE_vmGetCode_TransparentProxy_EXPECT_FAIL",
             "test_PACKAGE_vmGetCode_viaCheatcodeAddress_EXPECT_FAIL",
             "test_PACKAGE_deployTransparentProxy_EXPECT_FAIL",
             "test_DIAGNOSTIC_showArtifactAvailability",
             "test_DIAGNOSTIC_compareMethods",
             "test_WORKAROUND_expectRevert_onPackageContract_SHOULD_PASS"}

AllTests == UNION {Tests(f) : f \in TestFiles}

NoResults == [t \in AllTests |-> "none"]

NoLookups == [i \in Ids |-> "none"]

Verdict(passed) == IF passed THEN "pass" ELSE "fail"

\* address constant CHEATCODE_ADDRESS
CHEATCODE_ADDRESS == "0x7109709ECfa91a80626fF3989D68f67F5b1DD12D"

\* the vm handle a test contract inherits from Test: the cheatcode address
vm == "0x7109709ECfa91a80626fF3989D68f67F5b1DD12D"

\* Vm(handle).getCode(id) on a given index: the cheatcodes answer at their
\* address; a call to any other address reverts without a reason
CodeOn(index, handle, id) ==
    IF handle = vm
    THEN getCode(index, id)
    ELSE [ok |-> FALSE, error |-> "", code |-> <<>>]

CodeAt(handle, id) == CodeOn(edr, handle, id)

\* vm.getCode(id) as the running test calls it
Code(id) == CodeAt(vm, id)

Via(handle, ids) == [i \in 1..Len(ids) |-> [handle |-> handle, id |-> ids[i]]]

\* the lookup log after the calls of probe (a sequence) were made in order,
\* stopping after the first failure when the failure propagates
RECURSIVE Probed(_, _, _)
Probed(log, probe, propagate) ==
    IF probe = <<>> THEN log
    ELSE LET c == Head(probe)
             r == CodeAt(c.handle, c.id)
             l == [log EXCEPT ![c.id] = Outcome(r)]
         IN  IF propagate /\ ~r.ok THEN l ELSE Probed(l, Tail(probe), propagate)

\* the calls of probe that are made on a given index, in order, each with
\* its outcome
RECURSIVE TraceOn(_, _, _)
TraceOn(index, probe, propagate) ==
    IF probe = <<>> THEN <<>>
    ELSE LET c == Head(probe)
             r == CodeOn(index, c.handle, c.id)
             e == [id |-> c.id, ok |-> r.ok, error |-> r.error]
         IN  IF propagate /\ ~r.ok THEN <<e>>
             ELSE <<e>> \o TraceOn(index, Tail(probe), propagate)

NoProbes == [t \in AllTests |-> <<>>]

\* a lookup that fell back to the artifacts on disk would add them to the index
MutLazyLoad(index, disk) == index \cup disk

\* a lookup, found or not, leaves the index as it is
IndexAfterLookup(index, disk) == index

\* a test ends: its verdict is recorded and it leaves the pending set
Finish(t, passed, probe, propagate, instance) ==
    /\ pc = "testing"
    /\ t \in pending
    /\ pending' = pending \ {t}
    /\ results' = [results EXCEPT ![t] = Verdict(passed)]
    /\ lookups' = Probed(lookups, probe, propagate)
    /\ probed' = [probed EXCEPT ![t] = TraceOn(edr, probe, propagate)]
    /\ edr' = IndexAfterLookup(edr, artifactsDir \cup cacheDir)
    /\ deployed' = instance
    /\ UNCHANGED <<greeter, lastCall, config, testFile, artifactsDir, cacheDir, pc, viaScript,
                   rmFailed, compiles, exitStatus>>

-----------------------------------------------------------------------------
(* Tests of part_004 and part_003 *)

testGetCode ==
    LET r == Code(IdSimpleContract)
    IN  Finish("testGetCode", r.ok /\ Len(r.code) > 0,
               Via(vm, <<IdSimpleContract>>), TRUE, deployed)

testGetCodeAndCreate ==
    LET r  == Code(IdSimpleContract)
        d0 == create(deploymentBytecode(r.code, initialValue))
        d1 == setValue(d0, 42)
        ok == /\ r.ok
              /\ Len(r.code) > 0
              /\ d0.address # 0
              /\ d0.value = initialValue
              /\ d1.value = 42
    IN  Finish("testGetCodeAndCreate", ok, Via(vm, <<IdSimpleContract>>), TRUE,
               IF ~r.ok THEN deployed ELSE IF d0.address = 0 THEN d0 ELSE d1)

testGetCodeFromPackage ==
    LET r == Code(IdGreeter)
    IN  Finish("testGetCodeFromPackage", r.ok /\ Len(r.code) > 0,
               Via(vm, <<IdGreeter>>), TRUE, deployed)

-----------------------------------------------------------------------------
(* Tests of test/solidity/Test.t.sol *)

test_LOCAL_vmGetCode_SimpleContract_SHOULD_PASS ==
    LET r == Code(IdSimpleContract)
    IN  Finish("test_LOCAL_vmGetCode_SimpleContract_SHOULD_PASS",
               r.ok /\ Len(r.code) > 0, Via(vm, <<IdSimpleContract>>), TRUE, deployed)

test_LOCAL_vmGetCode_Greeter_SHOULD_PASS ==
    LET r == Code(IdGreeter)
    IN  Finish("test_LOCAL_vmGetCode_Greeter_SHOULD_PASS",
               r.ok /\ Len(r.code) > 0, Via(vm, <<IdGreeter>>), TRUE, deployed)

test_LOCAL_deployWithVmGetCode_SHOULD_PASS ==
    LET r  == Code(IdSimpleContract)
        d0 == create(deploymentBytecode(r.code, initialValue))
        ok == r.ok /\ d0.address # 0 /\ d0.value = initialValue
    IN  Finish("test_LOCAL_deployWithVmGetCode_SHOULD_PASS", ok,
               Via(vm, <<IdSimpleContract>>), TRUE, IF r.ok THEN d0 ELSE deployed)

test_PACKAGE_vmGetCode_TransparentProxy_EXPECT_FAIL ==
    LET r == Code(IdTransparentProxy)
    IN  Finish("test_PACKAGE_vmGetCode_TransparentProxy_EXPECT_FAIL",
               r.ok /\ Len(r.code) > 0, Via(vm, <<IdTransparentProxy>>), TRUE, deployed)

test_PACKAGE_vmGetCode_viaCheatcodeAddress_EXPECT_FAIL ==
    LET r == CodeAt(CHEATCODE_ADDRESS, IdTransparentProxy)
    IN  Finish("test_PACKAGE_vmGetCode_viaCheatcodeAddress_EXPECT_FAIL",
               r.ok /\ Len(r.code) > 0,
               Via(CHEATCODE_ADDRESS, <<IdTransparentProxy>>), TRUE, deployed)

\* Upgrades.deployTransparentProxy("Greeter.sol", ...) needs the bytecode of
\* the implementation and of the proxy
test_PACKAGE_deployTransparentProxy_EXPECT_FAIL ==
    Finish("test_PACKAGE_deployTransparentProxy_EXPECT_FAIL",
           Code(IdGreeter).ok /\ Code(IdTransparentProxy).ok,
           Via(vm, <<IdGreeter, IdTransparentProxy>>), TRUE, deployed)

MutNoTryCatch == TRUE

\* try vm.getCode(...) returns (...) { ... } catch { ... }: the failure of a
\* lookup inside try is caught and does not propagate
CatchPropagates == FALSE

\* a test whose body is only lookups made in order: it fails when a failed
\* lookup propagates
Survives(index, probe, propagate) ==
    \A i \in 1..Len(probe) :
        propagate => CodeOn(index, probe[i].handle, probe[i].id).ok

showArtifactAvailability == Via(vm, contracts)

test_DIAGNOSTIC_showArtifactAvailability ==
    Finish("test_DIAGNOSTIC_showArtifactAvailability",
           Survives(edr, showArtifactAvailability, CatchPropagates),
           showArtifactAvailability, CatchPropagates, deployed)

\* packageContract by method 1 and method 2, then localContract by both
compareMethods ==
    <<[handle |-> vm, id |-> IdTransparentProxy],
      [handle |-> CHEATCODE_ADDRESS, id |-> IdTransparentProxy],
      [handle |-> vm, id |-> IdGreeter],
      [handle |-> CHEATCODE_ADDRESS, id |-> IdGreeter]>>

test_DIAGNOSTIC_compareMethods ==
    Finish("test_DIAGNOSTIC_compareMethods",
           Survives(edr, compareMethods, CatchPropagates),
           compareMethods, CatchPropagates, deployed)

\* function tryGetCodeForPackageContract() external view
tryGetCodeForPackageContract == Code(IdTransparentProxy)

test_WORKAROUND_expectRevert_onPackageContract_SHOULD_PASS ==
    Finish("test_WORKAROUND_expectRevert_onPackageContract_SHOULD_PASS",
           expectRevert(~tryGetCodeForPackageContract.ok),
           Via(vm, <<IdTransparentProxy>>), FALSE, deployed)

-----------------------------------------------------------------------------
(* Commands *)

Fresh ==
    /\ pending' = {}
    /\ results' = NoResults
    /\ lookups' = NoLookups
    /\ deployed' = NotDeployed
    /\ probed' = NoProbes
    /\ edr' = {}

\* a full compilation run from the shell, before any test command
HardhatCompile ==
    /\ pc = "shell"
    /\ artifactsDir' = artifactsDir \cup HardhatCompileOutput(config)
    /\ UNCHANGED <<greeter, lastCall, config, testFile, cacheDir, edr, pc, viaScript, rmFailed,
                   compiles, pending, results, lookups, deployed, probed, exitStatus>>

\* npx hardhat test solidity test/solidity/Test.t.sol: compile the test
\* files, load the index, queue the tests of the file
HardhatTestSolidity ==
    /\ artifactsDir' = artifactsDir \cup TestCompileArtifacts
    /\ cacheDir' = cacheDir \cup TestCompileCache
    /\ edr' = LoadArtifacts(artifactsDir', cacheDir')
    /\ compiles' = compiles + 1
    /\ pending' = Tests(testFile)
    /\ results' = NoResults
    /\ lookups' = NoLookups
    /\ deployed' = NotDeployed
    /\ probed' = NoProbes
    /\ pc' = "testing"

\* the test command typed at the shell, without the script
DirectTest ==
    /\ pc = "shell"
    /\ HardhatTestSolidity
    /\ UNCHANGED <<greeter, lastCall, config, testFile, viaScript, rmFailed, exitStatus>>

\* npm run test:reproduce: bash starts the script (set -euo pipefail)
ScriptStart ==
    /\ pc = "shell"
    /\ pc' = "script_start"
    /\ viaScript' = TRUE
    /\ UNCHANGED <<greeter, lastCall, config, testFile, artifactsDir, cacheDir, edr, rmFailed,
                   compiles, pending, results, lookups, deployed, probed, exitStatus>>

\* rm -rf artifacts cache
ScriptRm ==
    /\ pc = "script_start"
    /\ artifactsDir' = RmRf(RmTargets, "artifacts", artifactsDir)
    /\ cacheDir' = RmRf(RmTargets, "cache", cacheDir)
    /\ pc' = "script_cleaned"
    /\ UNCHANGED <<greeter, lastCall, config, testFile, edr, viaScript, rmFailed, compiles, pending,
                   results, lookups, deployed, probed, exitStatus>>

MutRmFailureIgnored == "script_cleaned"

\* set -e: a failing command ends the script at once
AfterFailedRm == "done"

\* rm fails (say, a permission error): nothing is deleted
ScriptRmFails ==
    /\ pc = "script_start"
    /\ rmFailed' = TRUE
    /\ exitStatus' = 1
    /\ pc' = AfterFailedRm
    /\ UNCHANGED <<greeter, lastCall, config, testFile, artifactsDir, cacheDir, edr, viaScript,
                   compiles, pending, results, lookups, deployed, probed>>

\* line 10 of the script
ScriptTest ==
    /\ pc = "script_cleaned"
    /\ HardhatTestSolidity
    /\ UNCHANGED <<greeter, lastCall, config, testFile, viaScript, rmFailed, exitStatus>>

\* the test command ends once every test has run; being the script's last
\* command, its status is the script's
TestExit ==
    /\ pc = "testing"
    /\ pending = {}
    /\ exitStatus' = TestExitStatus(results)
    /\ pc' = "done"
    /\ UNCHANGED <<greeter, lastCall, config, testFile, artifactsDir, cacheDir, edr, viaScript,
                   rmFailed, compiles, pending, results, lookups, deployed, probed>>

\* back at the prompt: the process and its index are gone, the disk stays
BackToShell ==
    /\ pc = "done"
    /\ pc' = "shell"
    /\ viaScript' = FALSE
    /\ rmFailed' = FALSE
    /\ compiles' = 0
    /\ Fresh
    /\ UNCHANGED <<greeter, lastCall, config, testFile, artifactsDir, cacheDir, exitStatus>>

-----------------------------------------------------------------------------
(* Greeter: Initializable, OwnableUpgradeable *)

\* the implementation created by the constructor, and proxies in front of it
GreeterInstances == {"implementation", "proxy1", "proxy2"}

ZeroAddress == "0x0"

testOwner == "0x1234"

Addresses == {ZeroAddress, testOwner, "0x5678"}

\* no call comes from the zero address
Senders == Addresses \ {ZeroAddress}

Greetings == {"hello", "hola"}

\* storage no constructor or initializer has written
FreshStorage ==
    [deployed |-> FALSE, initialized |-> "0", owner |-> ZeroAddress, greeting |-> ""]

\* a constructor that forgets _disableInitializers()
MutConstructorKeepsInitializers == [FreshStorage EXCEPT !.deployed = TRUE]

\* constructor() { _disableInitializers(); }: the version is set to its maximum
GreeterConstructor ==
    [FreshStorage EXCEPT !.deployed = TRUE, !.initialized = "max"]

\* a proxy runs the implementation's code on its own storage, where the
\* constructor never ran
ProxyStorage == [FreshStorage EXCEPT !.deployed = TRUE]

\* the initializer modifier lets the body run only on the first version;
\* __Ownable_init reverts on the zero owner
InitializeReverts(g, initialOwner) ==
    g.initialized # "0" \/ initialOwner = ZeroAddress

\* function initialize(address initialOwner, string memory _greeting)
\*     public initializer
Initialized(g, initialOwner, _greeting) ==
    IF InitializeReverts(g, initialOwner)
    THEN g
    ELSE [g EXCEPT !.initialized = "1", !.owner = initialOwner,
                   !.greeting = _greeting]

NoCall ==
    [target |-> "", fn |-> "", owner |-> ZeroAddress, greeting |-> "",
     reverted |-> FALSE]

GreeterFrame ==
    UNCHANGED <<config, testFile, artifactsDir, cacheDir, edr, pc, viaScript,
                rmFailed, compiles, pending, results, lookups, deployed, probed,
                exitStatus>>

\* new Greeter()
NewGreeter ==
    /\ ~greeter["implementation"].deployed
    /\ greeter' = [greeter EXCEPT !["implementation"] = GreeterConstructor]
    /\ lastCall' = [NoCall EXCEPT !.target = "implementation", !.fn = "constructor"]
    /\ GreeterFrame

\* a proxy deployed in front of the implementation with the call
\* abi.encodeCall(Greeter.initialize, (initialOwner, _greeting)) as its data;
\* the deployment reverts when that call does
DeployProxy(p, initialOwner, _greeting) ==
    /\ p # "implementation"
    /\ greeter["implementation"].deployed
    /\ ~greeter[p].deployed
    /\ greeter' =
          [greeter EXCEPT ![p] =
              IF InitializeReverts(ProxyStorage, initialOwner)
              THEN greeter[p]
              ELSE Initialized(ProxyStorage, initialOwner, _greeting)]
    /\ lastCall' = [target |-> p, fn |-> "initialize", owner |-> initialOwner,
                    greeting |-> _greeting,
                    reverted |-> InitializeReverts(ProxyStorage, initialOwner)]
    /\ GreeterFrame

\* a proxy deployed with empty data: nothing is initialized
DeployProxyUninitialized(p) ==
    /\ p # "implementation"
    /\ greeter["implementation"].deployed
    /\ ~greeter[p].deployed
    /\ greeter' = [greeter EXCEPT ![p] = ProxyStorage]
    /\ lastCall' = [NoCall EXCEPT !.target = p, !.fn = "deploy"]
    /\ GreeterFrame

\* initialize called on a deployed instance
initialize(i, initialOwner, _greeting) ==
    /\ greeter[i].deployed
    /\ greeter' = [greeter EXCEPT ![i] = Initialized(greeter[i], initialOwner, _greeting)]
    /\ lastCall' = [target |-> i, fn |-> "initialize", owner |-> initialOwner,
                    greeting |-> _greeting,
                    reverted |-> InitializeReverts(greeter[i], initialOwner)]
    /\ GreeterFrame

\* transferOwnership(newOwner) onlyOwner, inherited from OwnableUpgradeable
transferOwnership(i, sender, newOwner) ==
    LET reverts == sender # greeter[i].owner \/ newOwner = ZeroAddress
    IN  /\ greeter[i].deployed
        /\ greeter' = [greeter EXCEPT ![i].owner = IF reverts THEN @ ELSE newOwner]
        /\ lastCall' = [target |-> i, fn |-> "transferOwnership", owner |-> newOwner,
                        greeting |-> "", reverted |-> reverts]
        /\ GreeterFrame

\* renounceOwnership() onlyOwner, inherited from OwnableUpgradeable
renounceOwnership(i, sender) ==
    LET reverts == sender # greeter[i].owner
    IN  /\ greeter[i].deployed
        /\ greeter' = [greeter EXCEPT ![i].owner = IF reverts THEN @ ELSE ZeroAddress]
        /\ lastCall' = [target |-> i, fn |-> "renounceOwnership",
                        owner |-> ZeroAddress, greeting |-> "", reverted |-> reverts]
        /\ GreeterFrame

-----------------------------------------------------------------------------

Init ==
    /\ config \in Configs
    /\ testFile \in TestFiles
    /\ artifactsDir = {}
    /\ cacheDir = {}
    /\ edr = {}
    /\ pc = "shell"
    /\ viaScript = FALSE
    /\ rmFailed = FALSE
    /\ compiles = 0
    /\ pending = {}
    /\ results = NoResults
    /\ lookups = NoLookups
    /\ deployed = NotDeployed
    /\ probed = NoProbes
    /\ exitStatus = 0
    /\ greeter = [i \in GreeterInstances |-> FreshStorage]
    /\ lastCall = NoCall

Next ==
    \/ HardhatCompile
    \/ DirectTest
    \/ ScriptStart
    \/ ScriptRm
    \/ ScriptRmFails
    \/ ScriptTest
    \/ testGetCode
    \/ testGetCodeAndCreate
    \/ testGetCodeFromPackage
    \/ test_LOCAL_vmGetCode_SimpleContract_SHOULD_PASS
    \/ test_LOCAL_vmGetCode_Greeter_SHOULD_PASS
    \/ test_LOCAL_deployWithVmGetCode_SHOULD_PASS
    \/ test_PACKAGE_vmGetCode_TransparentProxy_EXPECT_FAIL
    \/ test_PACKAGE_vmGetCode_viaCheatcodeAddress_EXPECT_FAIL
    \/ test_PACKAGE_deployTransparentProxy_EXPECT_FAIL
    \/ test_DIAGNOSTIC_showArtifactAvailability
    \/ test_DIAGNOSTIC_compareMethods
    \/ test_WORKAROUND_expectRevert_onPackageContract_SHOULD_PASS
    \/ TestExit
    \/ BackToShell

Spec == Init /\ [][Next]_vars

\* the Greeter contract under every sequence of calls, in the checkout that
\* deploys it behind a proxy
GreeterInit == Init /\ config = "part_001" /\ testFile = "Test.t.sol"

GreeterNext ==
    \/ NewGreeter
    \/ \E p \in GreeterInstances, o \in Addresses, g \in Greetings :
          DeployProxy(p, o, g)
    \/ \E p \in GreeterInstances : DeployProxyUninitialized(p)
    \/ \E i \in GreeterInstances, o \in Addresses, g \in Greetings :
          initialize(i, o, g)
    \/ \E i \in GreeterInstances, a \in Senders, o \in Addresses :
          transferOwnership(i, a, o)
    \/ \E i \in GreeterInstances, a \in Senders : renounceOwnership(i, a)

GreeterSpec == GreeterInit /\ [][GreeterNext]_vars

-----------------------------------------------------------------------------
(* Properties *)

TestCommandRan == pc \in {"testing", "done"} /\ ~rmFailed

OnDisk(id) == \E a \in artifactsDir \cup cacheDir : Matches(id, a)

Failing == \E t \in AllTests : results[t] = "fail"

\* C1: inside a test run, the lookup of every identifier that names a contract
\* compiled from the main or the test scope returns non-empty bytecode; in
\* particular "SimpleContract.sol" and "Greeter.sol" do.
C1_CompiledContractsAreFound ==
    pc = "testing" =>
        \A id \in Ids :
            (\E a \in MainArtifacts \cup TestCompileCache : Matches(id, a)) =>
                Code(id).ok /\ Len(Code(id).code) > 0

\* C2: the lookup is scope-agnostic: for an artifact that exists on disk, a run
\* in which the main-source directory holds it and a run in which the
\* test-source directory holds it, equal otherwise, give the same lookup
\* result for every identifier that names it.
C2_ScopeAgnostic ==
    pc = "testing" =>
        \A a \in artifactsDir \cup cacheDir :
            \A id \in Ids \cup {Id(<<a.sourceName[Len(a.sourceName)]>>, a.name)} :
                Matches(id, a) =>
                    getCode(LoadArtifacts(artifactsDir \cup {a}, cacheDir \ {a}), id)
                      = getCode(LoadArtifacts(artifactsDir \ {a}, cacheDir \cup {a}), id)

\* C3: a lookup fails only when neither artifact directory holds an artifact
\* for the identifier.
C3_FailsOnlyWhenNoArtifact ==
    \A id \in Ids : lookups[id] = "notfound" => ~OnDisk(id)

C6_TestCommandLeavesMainScope ==
    [][(pc = "testing" \/ pc' = "testing") =>
          /\ artifactsDir' = artifactsDir
          /\ TestContractArt \in cacheDir'
          /\ (viaScript => artifactsDir' \cap MainArtifacts = {})]_vars

C6_Witness ==
    /\ viaScript
    /\ pc = "done"
    /\ ~rmFailed
    /\ artifactsDir = {}
    /\ cacheDir = {TestContractArt}

\* C7: after a full compilation, the test that deploys the bytecode returned
\* by the lookup of "SimpleContract.sol" with constructor argument 100 gets a
\* contract at a non-zero address, reads 100, calls setValue(42) and reads 42.
C7_DeployAfterFullCompile ==
    (SimpleContractArt \in artifactsDir /\ results["testGetCodeAndCreate"] # "none") =>
        /\ results["testGetCodeAndCreate"] = "pass"
        /\ deployed.address # 0
        /\ deployed.value = 42

\* C8 (as stated): once the expect-failure fixture has passed, the finished
\* suite of Test.t.sol reports success, every test having passed.
C8_SuiteReportsSuccess ==
    (/\ testFile = "Test.t.sol"
     /\ pc = "done"
     /\ results["test_WORKAROUND_expectRevert_onPackageContract_SHOULD_PASS"] = "pass") =>
        /\ exitStatus = 0
        /\ \A t \in Tests(testFile) : results[t] = "pass"

\* C8 (amended): the expect-failure fixture passes exactly when the package
\* lookup fails, and then neither test asserting that the same lookup
\* succeeds passes; a finished run of the suite of Test.t.sol never reports
\* success.
C8_WorkaroundPassesSuiteFails ==
    LET w == results["test_WORKAROUND_expectRevert_onPackageContract_SHOULD_PASS"]
    IN  testFile = "Test.t.sol" =>
            /\ w # "none" => (w = "pass" <=> lookups[IdTransparentProxy] = "notfound")
            /\ w = "pass" =>
                  /\ results["test_PACKAGE_vmGetCode_TransparentProxy_EXPECT_FAIL"] # "pass"
                  /\ results["test_PACKAGE_vmGetCode_viaCheatcodeAddress_EXPECT_FAIL"] # "pass"
            /\ (pc = "done" /\ ~rmFailed) => (exitStatus # 0 /\ Failing)

C8_Witness ==
    /\ testFile = "Test.t.sol"
    /\ pc = "done"
    /\ results["test_WORKAROUND_expectRevert_onPackageContract_SHOULD_PASS"] = "pass"
    /\ results["test_PACKAGE_vmGetCode_TransparentProxy_EXPECT_FAIL"] = "fail"
    /\ exitStatus = 1

\* C9: the finished script exits non-zero when a test failed, its status
\* being that of the test command; when rm failed it exits non-zero without
\* the test command having been started.
C9_ScriptExitStatus ==
    (viaScript /\ pc = "done") =>
        /\ Failing => exitStatus # 0
        /\ ~rmFailed => (exitStatus # 0 <=> Failing)
        /\ rmFailed => (exitStatus # 0 /\ compiles = 0 /\ results = NoResults)

C9_Witness ==
    /\ viaScript
    /\ pc = "done"
    /\ ~rmFailed
    /\ Failing
    /\ exitStatus = 1

\* C10: in a run of the script both directories are empty when the test
\* command starts, the run compiles at most once, and all that is on disk or
\* in the index during the test command is what that one compilation made.
C10_ClearedBeforeSingleTestCommand ==
    /\ pc = "script_cleaned" => (artifactsDir = {} /\ cacheDir = {} /\ compiles = 0)
    /\ viaScript => compiles <= 1
    /\ (viaScript /\ TestCommandRan) =>
          /\ compiles = 1
          /\ artifactsDir = TestCompileArtifacts
          /\ cacheDir = TestCompileCache
          /\ edr \subseteq TestCompileCache

\* the script has just cleared what an earlier test command had left
C10_Witness ==
    /\ pc = "script_cleaned"
    /\ exitStatus = 1
    /\ artifactsDir = {}
    /\ cacheDir = {}

\* C11: under the configuration that lists the package file in
\* npmFilesToBuild, its artifact is generated and, in a test run, the lookup
\* of "TransparentUpgradeableProxy.sol:TransparentUpgradeableProxy" returns
\* non-empty bytecode.
C11_NpmFilesToBuildAreFound ==
    (/\ config = "part_001"
     /\ pc = "testing"
     /\ TransparentProxyArt \in artifactsDir) =>
        /\ Code(IdTransparentProxy).ok
        /\ Len(Code(IdTransparentProxy).code) > 0

\* every two lookups of one identifier recorded in the run, whichever test
\* and whichever handle made them, ended the same way
SameOutcomes(log) ==
    \A t, u \in AllTests :
        \A i \in DOMAIN log[t] : \A j \in DOMAIN log[u] :
            log[t][i].id = log[u][j].id =>
                /\ log[t][i].ok = log[u][j].ok
                /\ log[t][i].error = log[u][j].error

Probes(t) ==
    IF t = "test_DIAGNOSTIC_showArtifactAvailability"
    THEN showArtifactAvailability
    ELSE compareMethods

\* C13: whatever the index holds, each diagnostic test makes every one of
\* its lookups in order and passes; once run, it has passed and its record
\* lists all its identifiers in order, the failed ones included.
C13_DiagnosticsAlwaysPass ==
    \A t \in {"test_DIAGNOSTIC_showArtifactAvailability",
              "test_DIAGNOSTIC_compareMethods"} :
        results[t] # "none" =>
            /\ results[t] = "pass"
            /\ Len(probed[t]) = Len(Probes(t))
            /\ \A i \in DOMAIN probed[t] : probed[t][i].id = Probes(t)[i].id
            /\ \A index \in SUBSET (HardhatCompileOutput("part_001") \cup TestCompileCache) :
                  /\ Survives(index, Probes(t), CatchPropagates)
                  /\ Len(TraceOn(index, Probes(t), CatchPropagates)) = Len(Probes(t))

\* both diagnostics ran and passed although their first lookup failed
C13_Witness ==
    /\ results["test_DIAGNOSTIC_showArtifactAvailability"] = "pass"
    /\ results["test_DIAGNOSTIC_compareMethods"] = "pass"
    /\ Len(probed["test_DIAGNOSTIC_showArtifactAvailability"]) = 6
    /\ ~probed["test_DIAGNOSTIC_showArtifactAvailability"][1].ok
    /\ ~probed["test_DIAGNOSTIC_compareMethods"][1].ok

\* C14: a Greeter instance is initialized at most once: an initialize call
\* succeeds only on an instance never initialized and then sets owner and
\* greeting to its arguments; on an instance already initialized, or with
\* initializers disabled, every initialize call fails and leaves the instance
\* as it was, and nothing changes its greeting or its version again; the
\* Greeter created by the constructor has initializers disabled, no owner
\* and an empty greeting for ever.
C14_GreeterInitializedAtMostOnce ==
    [][/\ \A i \in GreeterInstances :
            /\ (lastCall'.fn = "initialize" /\ lastCall'.target = i
                    /\ ~lastCall'.reverted) =>
                  /\ greeter[i].initialized = "0"
                  /\ greeter'[i].initialized = "1"
                  /\ greeter'[i].owner = lastCall'.owner
                  /\ greeter'[i].greeting = lastCall'.greeting
            /\ greeter[i].initialized # "0" =>
                  /\ greeter'[i].initialized = greeter[i].initialized
                  /\ greeter'[i].greeting = greeter[i].greeting
                  /\ (lastCall'.fn = "initialize" /\ lastCall'.target = i) =>
                        (lastCall'.reverted /\ greeter'[i] = greeter[i])
       /\ greeter'["implementation"].deployed =>
            /\ greeter'["implementation"].initialized = "max"
            /\ greeter'["implementation"].owner = ZeroAddress
            /\ greeter'["implementation"].greeting = ""]_vars

\* a second initialize, with a valid owner, has just failed on an initialized
\* proxy, whose greeting is still the first one
C14_Witness ==
    /\ lastCall.fn = "initialize"
    /\ lastCall.target = "proxy1"
    /\ lastCall.owner = testOwner
    /\ lastCall.greeting = "hola"
    /\ lastCall.reverted
    /\ greeter["proxy1"].initialized = "1"
    /\ greeter["proxy1"].greeting = "hello"
    /\ greeter["implementation"].initialized = "max"

====
